---------------------------- MODULE Spec2Model ----------------------------
(* The deployment workflow of the DeployTab component                      *)
(* (frontend/src/components/DeployTab.jsx): file selection, the upload and *)
(* launch requests of handleDeploy, the setInterval poller of              *)
(* pollDeploymentStatus with its in-flight status requests, the            *)
(* 'Deploy Another App' reset and the unmount done by App; and the request *)
(* handlers of the other tabs App renders: QueryTab.handleSubmit,          *)
(* VisionTab.handleGenerate and AgentTab.callAgent.                        *)
EXTENDS Integers, Sequences, FiniteSets, TLC

(* ------------------------------ bounds -------------------------------- *)

\* deployment ids the launch endpoint hands out in one behaviour
MaxDeploys == 3
\* status requests issued in one behaviour
MaxPolls == 3
\* status requests issued in one behaviour of SpecPoll, which has one poller
MaxBurst == 5
\* agent requests not yet answered, over the three agents of AgentTab
MaxCalls == 3

(* ------------------------------ strings ------------------------------- *)
\* A string is a sequence of one-character strings.

ZipExt == <<".", "z", "i", "p">>

\* String.prototype.endsWith
EndsWith(s, suf) ==
    /\ Len(s) >= Len(suf)
    /\ SubSeq(s, Len(s) - Len(suf) + 1, Len(s)) = suf

\* the positions at which pat occurs in s
Occurrences(s, pat) ==
    { i \in 1..(Len(s) - Len(pat) + 1) : SubSeq(s, i, i + Len(pat) - 1) = pat }

\* String.prototype.replace with a string pattern: the FIRST occurrence only
Replace(s, pat, rep) ==
    IF Occurrences(s, pat) = {} THEN s
    ELSE LET i == CHOOSE k \in Occurrences(s, pat) :
                      \A j \in Occurrences(s, pat) : k <= j
         IN  SubSeq(s, 1, i - 1) \o rep \o SubSeq(s, i + Len(pat), Len(s))

LowerChar(c) ==
    CASE c = "A" -> "a"
      [] c = "M" -> "m"
      [] OTHER   -> c

\* String.prototype.toLowerCase
ToLowerCase(s) == [i \in 1..Len(s) |-> LowerChar(s[i])]

\* the file names offered to handleFileSelect
NameMyApp == <<"M", "y", " ", "A", "p", "p", ".", "z", "i", "p">>
NameTwoZip == <<"a", ".", "z", "i", "p", "b", ".", "z", "i", "p">>
NameText == <<"a", ".", "t", "x", "t">>
NoFile == <<>>
FileNames == {NameMyApp, NameTwoZip, NameText}

\* app_name: file.name.replace('.zip', '').toLowerCase()
AppName(name) == ToLowerCase(Replace(name, ZipExt, <<>>))

(* --------------------------- values in flight -------------------------- *)

NoId == 0
DeployIds == 1..MaxDeploys
NoUpload == "none"
UploadIds == {"u1"}

\* err.response?.data?.detail and err.message of a rejected axios call
Errors ==
    { [detail |-> "", message |-> "Network Error"],
      [detail |-> "bad archive", message |-> "Request failed with status code 400"] }

\* err.response?.data?.detail || err.message
ErrorText(e) == IF e.detail # "" THEN e.detail ELSE e.message

\* response.data.message of a 'running' status response ("" : none)
Msgs == {"", "m1", "m2"}
Urls == {"http://x.test", "http://y.test"}

\* log entries: <<kind, argument>>
LogUploading == <<"uploading", "">>
LogUploaded == <<"uploadComplete", "">>
LogBuilding == <<"building", "">>
LogDeploying == <<"deploying", "">>
LogSucceeded == <<"succeeded", "">>
LogLive(u) == <<"live", u>>
LogPollFailed == <<"failed", "">>
LogFailed(m) == <<"failed", m>>
LogMsg(m) == <<"msg", m>>

ErrSelectZip == "Please select a valid .zip file containing your project"
ErrNoFile == "Please select a file first"

(* ------------------- values of the other tabs' requests ---------------- *)

\* String.prototype.startsWith
StartsWith(s, pre) == Len(pre) <= Len(s) /\ SubSeq(s, 1, Len(pre)) = pre

\* the text typed into QueryTab's textarea
Queries == {"", "idle VMs"}
\* response.data of POST /api/query
Answers == {"a1", "a2"}

\* file.type of the files offered to VisionTab.handleFileSelect
ImagePrefix == <<"i", "m", "a", "g", "e", "/">>
TypePng == <<"i", "m", "a", "g", "e", "/", "p", "n", "g">>
TypePdf == <<"a", "p", "p", "l", "i", "c", "a", "t", "i", "o", "n", "/", "p", "d", "f">>
NoImage == <<>>
FileTypes == {TypePng, TypePdf}
\* response.data.bicep_code of POST /api/vision/analyze
BicepCodes == {"b1", "b2"}

ErrSelectImage == "Please select a valid image file"
ErrNoImage == "Please select an image first"

\* the ids of AgentTab's agents array
Agents == {"optimize", "cost", "security"}
\* response.data of an agent endpoint
AgentData == {"d1"}

VARIABLES
    mounted,        \* App renders <DeployTab />
    file,           \* useState(null): the selected file's name, NoFile for null
    deploying,      \* useState(false)
    deploymentId,   \* useState(null)
    status,         \* useState(null)
    logs,           \* useState([])
    error,          \* useState(null)
    run,            \* the activation of handleDeploy: where it awaits, its closure
    timers,         \* deployment ids whose setInterval is active
    inflight,       \* per deployment id, the status requests not yet answered
    pollErrors,     \* console.error lines since a status request was last answered
    nextId,         \* the launch endpoint's next deployment_id
    polls,          \* status requests issued so far
    \* QueryTab
    queryMounted,   \* App renders <QueryTab />
    query,          \* useState('')
    queryLoading,   \* useState(false)
    queryResult,    \* useState(null)
    queryError,     \* useState(null)
    queryCalls,     \* POST /api/query requests not yet answered
    \* VisionTab
    visionMounted,  \* App renders <VisionTab />
    image,          \* useState(null): the selected file's type, NoImage for null
    visionLoading,  \* useState(false)
    bicepCode,      \* useState(null)
    visionError,    \* useState(null)
    visionCalls,    \* POST /api/vision/analyze requests not yet answered
    \* AgentTab
    agentLoading,   \* useState(null): the agent id passed to setLoading
    results,        \* useState({}): per agent id, the response data
    agentError,     \* useState(null)
    agentCalls      \* per agent id, the requests not yet answered

queryVars == <<queryMounted, query, queryLoading, queryResult, queryError,
               queryCalls>>
visionVars == <<visionMounted, image, visionLoading, bicepCode, visionError,
                visionCalls>>
agentVars == <<agentLoading, results, agentError, agentCalls>>
otherTabs == <<queryVars, visionVars, agentVars>>
deployVars == <<mounted, file, deploying, deploymentId, status, logs, error,
                run, timers, inflight, pollErrors, nextId, polls>>

vars == <<mounted, file, deploying, deploymentId, status, logs, error,
          run, timers, inflight, pollErrors, nextId, polls, otherTabs>>

IdleRun == [pc |-> "idle", file |-> NoFile, uploadId |-> NoUpload, appName |-> <<>>]

\* the useState initial values of QueryTab, VisionTab and AgentTab
OtherTabsInit ==
    /\ query = "" /\ queryLoading = FALSE
    /\ queryResult = "null" /\ queryError = "null" /\ queryCalls = 0
    /\ image = NoImage /\ visionLoading = FALSE
    /\ bicepCode = "null" /\ visionError = "null" /\ visionCalls = 0
    /\ agentLoading = "null"
    /\ results = [a \in Agents |-> "none"]
    /\ agentError = "null"
    /\ agentCalls = [a \in Agents |-> 0]

\* the useState initial values of DeployTab; nothing is in flight
DeployTabInit ==
    /\ file = NoFile
    /\ deploying = FALSE
    /\ deploymentId = NoId
    /\ status = "null"
    /\ logs = <<>>
    /\ error = "null"
    /\ run = IdleRun
    /\ timers = {}
    /\ inflight = [i \in DeployIds |-> 0]
    /\ pollErrors = 0
    /\ nextId = 1
    /\ polls = 0

\* App with the 'Deploy Code' tab chosen
Init ==
    /\ mounted = TRUE
    /\ queryMounted = FALSE
    /\ visionMounted = FALSE
    /\ OtherTabsInit
    /\ DeployTabInit

(* ------------------------------ rendering ------------------------------ *)

\* {!deploymentId && ( <upload area> ... )}
UploadAreaShown == mounted /\ deploymentId = NoId

\* {file && <button onClick={handleDeploy} disabled={deploying}>}
DeployButtonEnabled == UploadAreaShown /\ file # NoFile /\ ~deploying

ResetShownAnyStatus == mounted /\ Len(logs) > 0 /\ status # "null"

\* {logs.length > 0 && ... {status === 'succeeded' && <button>Deploy Another App}}
ResetShown == mounted /\ Len(logs) > 0 /\ status = "succeeded"


(* --------------------------- handleFileSelect -------------------------- *)

AcceptsAnyFile(f) == f # NoFile

\* selectedFile && selectedFile.name.endsWith('.zip')
AcceptsFile(f) == f # NoFile /\ EndsWith(f, ZipExt)

\* onChange / onDrop of the upload area; f = NoFile is a dialog closed empty
HandleFileSelect(f) ==
    /\ UploadAreaShown
    /\ IF AcceptsFile(f)
       THEN file' = f /\ error' = "null"
       ELSE file' = file /\ error' = ErrSelectZip
    /\ UNCHANGED <<otherTabs, mounted, deploying, deploymentId, status, logs,
                   run,
                   timers, inflight, pollErrors, nextId, polls>>

(* ------------------------------ handleDeploy --------------------------- *)

\* handleDeploy up to its first await: the upload request is issued
HandleDeploy ==
    IF file = NoFile
    THEN /\ error' = ErrNoFile
         /\ UNCHANGED <<otherTabs, mounted, file, deploying, deploymentId,
                        status, logs,
                        run, timers, inflight, pollErrors, nextId, polls>>
    ELSE /\ deploying' = TRUE
         /\ error' = "null"
         /\ logs' = <<LogUploading>>
         /\ status' = "uploading"
         /\ run' = [pc |-> "upload", file |-> file, uploadId |-> NoUpload,
                    appName |-> <<>>]
         /\ UNCHANGED <<otherTabs, mounted, file, deploymentId, timers,
                        inflight,
                        pollErrors, nextId, polls>>

\* a click on the 'Deploy to Azure' button
ClickDeploy == DeployButtonEnabled /\ HandleDeploy

RunAfterUploadErrorGoesOn(r) ==
    [r EXCEPT !.pc = "launch", !.appName = AppName(r.file)]

\* the activation after the upload request was rejected: the catch and the
\* finally block run and handleDeploy returns
RunAfterUploadError(r) == IdleRun

RunAfterUploadSelectedFile(r, u) ==
    [r EXCEPT !.pc = "launch", !.uploadId = u, !.appName = AppName(file)]

\* the activation after the upload request was answered: the launch request
\* is issued with the upload id and the app name of the closure's file
RunAfterUpload(r, u) ==
    [r EXCEPT !.pc = "launch", !.uploadId = u, !.appName = AppName(r.file)]

CatchDeployNoLog(e) ==
    IF mounted
    THEN /\ error' = ErrorText(e)
         /\ status' = "failed"
         /\ logs' = logs
         /\ deploying' = FALSE
    ELSE UNCHANGED <<error, status, logs, deploying>>

CatchDeployKeepsStatus(e) ==
    IF mounted
    THEN /\ error' = ErrorText(e)
         /\ status' = status
         /\ logs' = Append(logs, LogFailed(e.message))
         /\ deploying' = FALSE
    ELSE UNCHANGED <<error, status, logs, deploying>>

\* catch (err) { setError; setStatus('failed'); setLogs } finally { setDeploying(false) }
CatchDeploy(e) ==
    IF mounted
    THEN /\ error' = ErrorText(e)
         /\ status' = "failed"
         /\ logs' = Append(logs, LogFailed(e.message))
         /\ deploying' = FALSE
    ELSE UNCHANGED <<error, status, logs, deploying>>

\* the upload request is answered with an upload id
UploadSucceeds(u) ==
    /\ run.pc = "upload"
    /\ run' = RunAfterUpload(run, u)
    /\ IF mounted
       THEN /\ logs' = logs \o <<LogUploaded, LogBuilding>>
            /\ status' = "building"
       ELSE UNCHANGED <<logs, status>>
    /\ UNCHANGED <<otherTabs, mounted, file, deploying, deploymentId, error,
                   timers,
                   inflight, pollErrors, nextId, polls>>

\* the upload request is rejected
UploadFails(e) ==
    /\ run.pc = "upload"
    /\ run' = RunAfterUploadError(run)
    /\ CatchDeploy(e)
    /\ UNCHANGED <<otherTabs, mounted, file, deploymentId, timers, inflight,
                   pollErrors,
                   nextId, polls>>

\* pollDeploymentStatus(id): setInterval(..., 3000)
PollDeploymentStatus(id) ==
    /\ timers' = timers \cup {id}
    /\ pollErrors' = 0

\* the launch request is answered with a deployment id
LaunchSucceeds ==
    /\ run.pc = "launch"
    /\ nextId \in DeployIds
    /\ nextId' = nextId + 1
    /\ run' = IdleRun
    /\ IF mounted
       THEN /\ deploymentId' = nextId
            /\ logs' = Append(logs, LogDeploying)
            /\ deploying' = FALSE
       ELSE UNCHANGED <<deploymentId, logs, deploying>>
    /\ PollDeploymentStatus(nextId)
    /\ UNCHANGED <<otherTabs, mounted, file, status, error, inflight, polls>>

\* the launch request is rejected
LaunchFails(e) ==
    /\ run.pc = "launch"
    /\ run' = IdleRun
    /\ CatchDeploy(e)
    /\ UNCHANGED <<otherTabs, mounted, file, deploymentId, timers, inflight,
                   pollErrors,
                   nextId, polls>>

(* -------------------------- pollDeploymentStatus ----------------------- *)

\* the interval of deployment id fires: axios.get(`/api/deploy/status/${id}`)
TickUpTo(id, cap) ==
    /\ id \in timers
    /\ polls < cap
    /\ polls' = polls + 1
    /\ inflight' = [inflight EXCEPT ![id] = @ + 1]
    /\ UNCHANGED <<otherTabs, mounted, file, deploying, deploymentId, status,
                   logs, error,
                   run, timers, pollErrors, nextId>>

Tick(id) == TickUpTo(id, MaxPolls)

TickBurst(id) == TickUpTo(id, MaxBurst)

\* one status request of deployment id is answered or rejected
Answered(id) ==
    /\ inflight[id] > 0
    /\ inflight' = [inflight EXCEPT ![id] = @ - 1]

TimersAfterTerminalKeep(t, id) == t

\* clearInterval(interval) after a 'succeeded' or a 'failed' response
TimersAfterTerminal(t, id) == t \ {id}

\* setLogs(prev => [...prev, successful]); setLogs(prev => [...prev, live at url])
LogsAfterSucceeded(l, u) == l \o <<LogSucceeded, LogLive(u)>>

\* response.data.status === 'succeeded'
StatusSucceeded(id, u) ==
    /\ Answered(id)
    /\ IF mounted
       THEN /\ status' = "succeeded"
            /\ logs' = LogsAfterSucceeded(logs, u)
       ELSE UNCHANGED <<status, logs>>
    /\ timers' = TimersAfterTerminal(timers, id)
    /\ pollErrors' = 0
    /\ UNCHANGED <<otherTabs, mounted, file, deploying, deploymentId, error,
                   run, nextId, polls>>

\* response.data.status === 'failed'
StatusFailed(id) ==
    /\ Answered(id)
    /\ IF mounted
       THEN /\ status' = "failed"
            /\ logs' = Append(logs, LogPollFailed)
       ELSE UNCHANGED <<status, logs>>
    /\ timers' = TimersAfterTerminal(timers, id)
    /\ pollErrors' = 0
    /\ UNCHANGED <<otherTabs, mounted, file, deploying, deploymentId, error,
                   run, nextId, polls>>

LogsAfterRunningNewestFirst(l, m) == <<LogMsg(m)>> \o l

\* setLogs(prev => [...prev, response.data.message])
LogsAfterRunning(l, m) == Append(l, LogMsg(m))

\* any other status: still in progress; m = "" is a response without message
StatusRunning(id, m) ==
    /\ Answered(id)
    /\ IF mounted /\ m # ""
       THEN logs' = LogsAfterRunning(logs, m)
       ELSE UNCHANGED logs
    /\ pollErrors' = 0
    /\ UNCHANGED <<otherTabs, mounted, file, deploying, deploymentId, status,
                   error, run,
                   timers, nextId, polls>>

\* catch (err) { console.error(...); clearInterval(interval) }
TimersAfterError(t, id) == t \ {id}

\* the status request is rejected (network error)
StatusError(id) ==
    /\ Answered(id)
    /\ pollErrors' = pollErrors + 1
    /\ timers' = TimersAfterError(timers, id)
    /\ UNCHANGED <<otherTabs, mounted, file, deploying, deploymentId, status,
                   logs, error,
                   run, nextId, polls>>

(* ------------------------------- the rest ------------------------------ *)

\* onClick of 'Deploy Another App'
Reset ==
    /\ ResetShown
    /\ file' = NoFile
    /\ deploymentId' = NoId
    /\ status' = "null"
    /\ logs' = <<>>
    /\ UNCHANGED <<otherTabs, mounted, deploying, error, run, timers, inflight,
                   pollErrors, nextId, polls>>

\* App: setActiveTab to another tab; {activeTab === 'deploy' && <DeployTab />}
\* no longer renders the component, whose state is discarded
Unmount ==
    /\ mounted
    /\ mounted' = FALSE
    /\ file' = NoFile
    /\ deploying' = FALSE
    /\ deploymentId' = NoId
    /\ status' = "null"
    /\ logs' = <<>>
    /\ error' = "null"
    /\ UNCHANGED <<otherTabs, run, timers, inflight, pollErrors, nextId, polls>>

Next ==
    \/ \E f \in FileNames \cup {NoFile} : HandleFileSelect(f)
    \/ ClickDeploy
    \/ \E u \in UploadIds : UploadSucceeds(u)
    \/ \E e \in Errors : UploadFails(e)
    \/ LaunchSucceeds
    \/ \E e \in Errors : LaunchFails(e)
    \/ \E id \in DeployIds : Tick(id)
    \/ \E id \in DeployIds, u \in Urls : StatusSucceeded(id, u)
    \/ \E id \in DeployIds : StatusFailed(id)
    \/ \E id \in DeployIds, m \in Msgs : StatusRunning(id, m)
    \/ \E id \in DeployIds : StatusError(id)
    \/ Reset
    \/ Unmount

Spec == Init /\ [][Next]_vars

\* A session in which 'Deploy Another App' is never clicked, so that at most
\* one deployment is launched; its poller is followed over more requests.
NextPoll ==
    \/ \E f \in FileNames \cup {NoFile} : HandleFileSelect(f)
    \/ ClickDeploy
    \/ \E u \in UploadIds : UploadSucceeds(u)
    \/ \E e \in Errors : UploadFails(e)
    \/ LaunchSucceeds
    \/ \E e \in Errors : LaunchFails(e)
    \/ \E id \in DeployIds : TickBurst(id)
    \/ \E id \in DeployIds, u \in Urls : StatusSucceeded(id, u)
    \/ \E id \in DeployIds : StatusFailed(id)
    \/ \E id \in DeployIds, m \in Msgs : StatusRunning(id, m)
    \/ \E id \in DeployIds : StatusError(id)
    \/ Unmount

SpecPoll == Init /\ [][NextPoll]_vars

TypeOK ==
    /\ mounted \in BOOLEAN
    /\ file \in FileNames \cup {NoFile}
    /\ deploying \in BOOLEAN
    /\ deploymentId \in DeployIds \cup {NoId}
    /\ status \in {"null", "uploading", "building", "succeeded", "failed"}
    /\ run.pc \in {"idle", "upload", "launch"}
    /\ timers \subseteq DeployIds
    /\ \A i \in DeployIds : inflight[i] \in 0..polls
    /\ DeployButtonEnabled => run.pc = "idle"

(* -------------------------------- QueryTab ----------------------------- *)

\* onChange of the textarea
SetQuery(q) ==
    /\ queryMounted
    /\ query' = q
    /\ UNCHANGED <<deployVars, visionVars, agentVars, queryMounted,
                   queryLoading, queryResult, queryError, queryCalls>>

SubmitEnabledWhileLoading == queryMounted /\ query # ""

\* <textarea required> and <button type="submit" disabled={loading}>
SubmitEnabled == queryMounted /\ query # "" /\ ~queryLoading

\* handleSubmit up to its await: the query request is issued
HandleSubmit ==
    /\ queryLoading' = TRUE
    /\ queryError' = "null"
    /\ queryResult' = "null"
    /\ queryCalls' = queryCalls + 1
    /\ UNCHANGED <<deployVars, visionVars, agentVars, queryMounted, query>>

\* the form is submitted
ClickSubmit == SubmitEnabled /\ HandleSubmit

\* the query request is answered: setResult(response.data), finally
QueryResponds(a) ==
    /\ queryCalls > 0
    /\ queryCalls' = queryCalls - 1
    /\ IF queryMounted
       THEN queryResult' = a /\ queryLoading' = FALSE
       ELSE UNCHANGED <<queryResult, queryLoading>>
    /\ UNCHANGED <<deployVars, visionVars, agentVars, queryMounted, query,
                   queryError>>

\* the query request is rejected: catch, finally
QueryFails(e) ==
    /\ queryCalls > 0
    /\ queryCalls' = queryCalls - 1
    /\ IF queryMounted
       THEN queryError' = ErrorText(e) /\ queryLoading' = FALSE
       ELSE UNCHANGED <<queryError, queryLoading>>
    /\ UNCHANGED <<deployVars, visionVars, agentVars, queryMounted, query,
                   queryResult>>

\* App: setActiveTab to another tab; {activeTab === 'query' && <QueryTab />}
QueryUnmount ==
    /\ queryMounted
    /\ queryMounted' = FALSE
    /\ query' = ""
    /\ queryLoading' = FALSE
    /\ queryResult' = "null"
    /\ queryError' = "null"
    /\ UNCHANGED <<deployVars, visionVars, agentVars, queryCalls>>

(* ------------------------------- VisionTab ----------------------------- *)

\* file && file.type.startsWith('image/')
AcceptsImage(t) == t # NoImage /\ StartsWith(t, ImagePrefix)

\* VisionTab.handleFileSelect; t = NoImage is a dialog closed empty
VisionHandleFileSelect(t) ==
    /\ visionMounted
    /\ IF AcceptsImage(t)
       THEN image' = t /\ visionError' = "null"
       ELSE image' = image /\ visionError' = ErrSelectImage
    /\ UNCHANGED <<deployVars, queryVars, agentVars, visionMounted,
                   visionLoading, bicepCode, visionCalls>>

\* {image && <button onClick={handleGenerate} disabled={loading}>}
GenerateEnabled == visionMounted /\ image # NoImage /\ ~visionLoading

\* handleGenerate up to its await: the analyze request is issued
HandleGenerate ==
    IF image = NoImage
    THEN /\ visionError' = ErrNoImage
         /\ UNCHANGED <<deployVars, queryVars, agentVars, visionMounted, image,
                        visionLoading, bicepCode, visionCalls>>
    ELSE /\ visionLoading' = TRUE
         /\ visionError' = "null"
         /\ bicepCode' = "null"
         /\ visionCalls' = visionCalls + 1
         /\ UNCHANGED <<deployVars, queryVars, agentVars, visionMounted, image>>

\* a click on the 'Generate Deployment Code' button
ClickGenerate == GenerateEnabled /\ HandleGenerate

\* the analyze request is answered: setBicepCode(response.data.bicep_code), finally
VisionResponds(b) ==
    /\ visionCalls > 0
    /\ visionCalls' = visionCalls - 1
    /\ IF visionMounted
       THEN bicepCode' = b /\ visionLoading' = FALSE
       ELSE UNCHANGED <<bicepCode, visionLoading>>
    /\ UNCHANGED <<deployVars, queryVars, agentVars, visionMounted, image,
                   visionError>>

\* the analyze request is rejected: catch, finally
VisionFails(e) ==
    /\ visionCalls > 0
    /\ visionCalls' = visionCalls - 1
    /\ IF visionMounted
       THEN visionError' = ErrorText(e) /\ visionLoading' = FALSE
       ELSE UNCHANGED <<visionError, visionLoading>>
    /\ UNCHANGED <<deployVars, queryVars, agentVars, visionMounted, image,
                   bicepCode>>

\* App: setActiveTab to another tab; {activeTab === 'vision' && <VisionTab />}
VisionUnmount ==
    /\ visionMounted
    /\ visionMounted' = FALSE
    /\ image' = NoImage
    /\ visionLoading' = FALSE
    /\ bicepCode' = "null"
    /\ visionError' = "null"
    /\ UNCHANGED <<deployVars, queryVars, agentVars, visionCalls>>

\* App with one of the tabs 'Ask Questions', 'Vision Deploy' and 'Deploy Code'
\* chosen: the component of that tab is rendered with its initial state
InitBusy ==
    /\ \E t \in {"query", "vision", "deploy"} :
          /\ queryMounted = (t = "query")
          /\ visionMounted = (t = "vision")
          /\ mounted = (t = "deploy")
    /\ DeployTabInit
    /\ OtherTabsInit

\* the three components whose handler keeps a busy flag
NextBusy ==
    \/ Next
    \/ \E q \in Queries : SetQuery(q)
    \/ ClickSubmit
    \/ \E a \in Answers : QueryResponds(a)
    \/ \E e \in Errors : QueryFails(e)
    \/ QueryUnmount
    \/ \E t \in FileTypes \cup {NoImage} : VisionHandleFileSelect(t)
    \/ ClickGenerate
    \/ \E b \in BicepCodes : VisionResponds(b)
    \/ \E e \in Errors : VisionFails(e)
    \/ VisionUnmount

SpecBusy == InitBusy /\ [][NextBusy]_vars

(* -------------------------------- AgentTab ----------------------------- *)

\* const isLoading = loading === agent.id
IsLoading(a) == agentLoading = a

\* the agent requests not yet answered
RECURSIVE CallsOf(_, _)
CallsOf(calls, as) ==
    IF as = {} THEN 0
    ELSE LET a == CHOOSE x \in as : TRUE
         IN calls[a] + CallsOf(calls, as \ {a})

\* callAgent(agentType, endpoint) up to its await: the request is issued
CallAgent(a) ==
    /\ agentLoading' = a
    /\ agentError' = "null"
    /\ agentCalls' = [agentCalls EXCEPT ![a] = @ + 1]
    /\ UNCHANGED <<deployVars, queryVars, visionVars, results>>

\* onClick of an agent card: !isLoading && callAgent(agent.id, agent.endpoint)
ClickAgent(a) ==
    /\ ~IsLoading(a)
    /\ CallsOf(agentCalls, Agents) < MaxCalls
    /\ CallAgent(a)

\* the request is answered: setResults(prev => ({...prev, [agentType]: data})), finally
AgentResponds(a, d) ==
    /\ agentCalls[a] > 0
    /\ agentCalls' = [agentCalls EXCEPT ![a] = @ - 1]
    /\ results' = [results EXCEPT ![a] = d]
    /\ agentLoading' = "null"
    /\ UNCHANGED <<deployVars, queryVars, visionVars, agentError>>

\* the request is rejected: catch, finally
AgentFails(a, e) ==
    /\ agentCalls[a] > 0
    /\ agentCalls' = [agentCalls EXCEPT ![a] = @ - 1]
    /\ agentError' = ErrorText(e)
    /\ agentLoading' = "null"
    /\ UNCHANGED <<deployVars, queryVars, visionVars, results>>

\* App with the 'Agents' tab chosen
InitAgent ==
    /\ mounted = FALSE
    /\ queryMounted = FALSE
    /\ visionMounted = FALSE
    /\ DeployTabInit
    /\ OtherTabsInit

NextAgent ==
    \/ \E a \in Agents : ClickAgent(a)
    \/ \E a \in Agents, d \in AgentData : AgentResponds(a, d)
    \/ \E a \in Agents, e \in Errors : AgentFails(a, e)

SpecAgent == InitAgent /\ [][NextAgent]_vars

(* ------------------------------ properties ----------------------------- *)

Terminal == {"succeeded", "failed"}
NonTerminal == {"uploading", "building"}

IsPrefix(a, b) == Len(a) <= Len(b) /\ SubSeq(b, 1, Len(a)) = a

\* the positions of the log that record a terminal event
TerminalEntries(l) == { i \in 1..Len(l) : l[i][1] \in Terminal }

\* the step in which a new upload request is issued
UploadStarts == run.pc = "idle" /\ run'.pc = "upload"

\* C1: the log of a deployment holds at most one terminal event (succeeded
\* or failed), and nothing follows it but the url line of a success.
C1_OneTerminalEventLast ==
    /\ Cardinality(TerminalEntries(logs)) <= 1
    /\ \A i \in TerminalEntries(logs) :
           \/ i = Len(logs)
           \/ /\ logs[i] = LogSucceeded
              /\ i + 1 = Len(logs)
              /\ logs[i + 1][1] = "live"

\* C2: a launch request is in flight only with the upload id of an answered
\* upload request, and the step in which the upload request is rejected ends
\* the run of handleDeploy: no launch request, no poller, no status request.
C2_NoLaunchAfterUploadError ==
    /\ [](run.pc = "launch" => run.uploadId \in UploadIds)
    /\ [][(run.pc = "upload" /\ run'.pc # "upload" /\ run'.uploadId = NoUpload)
            => (run'.pc = "idle" /\ timers' = timers /\ polls' = polls
                /\ nextId' = nextId)]_vars

\* C2 witness: the upload request was rejected and handleDeploy has returned.
C2_UploadRejected ==
    /\ run.pc = "idle"
    /\ status = "failed"
    /\ \E e \in Errors : logs = <<LogUploading, LogFailed(e.message)>>
    /\ timers = {}
    /\ nextId = 1

\* C3: a rejected status request changes neither the status nor the poller:
\* the interval stays active and issues the next request.
C3_PollErrorKeepsPolling ==
    [][(pollErrors' = pollErrors + 1) => (status' = status /\ timers' = timers)]_vars

\* C4: once 5 status requests in a row were rejected the deployment is
\* failed, after exactly 5 status requests.
C4_FailedAfterFiveErrors ==
    (mounted /\ pollErrors >= 5) => (status = "failed" /\ polls = 5)

\* the file name without its trailing extension
ReplaceAtEnd(s, pat, rep) ==
    IF EndsWith(s, pat) THEN SubSeq(s, 1, Len(s) - Len(pat)) \o rep ELSE s

\* C6: the app_name of the launch request is the name of the uploaded file
\* without its trailing '.zip', in lower case.
C6_AppNameStripsTrailingZip ==
    run.pc = "launch" => run.appName = ToLowerCase(ReplaceAtEnd(run.file, ZipExt, <<>>))

C8_OneSubmissionInFlight ==
    [][UploadStarts => (timers = {} /\ status \notin NonTerminal)]_vars

\* C9: in every terminal state, succeeded or failed, the reset is offered.
C9_ResetAfterTerminal ==
    (mounted /\ status \in Terminal) => ENABLED Reset

\* C10: while the status is uploading or building the reset is not enabled,
\* and no step clears the session fields.
C10_NoResetBeforeTerminal ==
    /\ [](status \in NonTerminal => ~ENABLED Reset)
    /\ [][(status \in NonTerminal /\ mounted') =>
            ~(file' = NoFile /\ deploymentId' = NoId /\ status' = "null"
              /\ logs' = <<>>)]_vars

\* C10 witness: a deployment is being polled and has logged, not yet terminal.
C10_PollingNotTerminal ==
    /\ mounted
    /\ status = "building"
    /\ deploymentId # NoId
    /\ deploymentId \in timers
    /\ Len(logs) > 0

\* C11: the selected file is absent or has a name ending in '.zip', the file
\* of an upload request has a name ending in '.zip', and no step taken with
\* no file selected issues an upload request.
C11_OnlyZipUploaded ==
    /\ [](file = NoFile \/ EndsWith(file, ZipExt))
    /\ [](run.pc # "idle" => EndsWith(run.file, ZipExt))
    /\ [][file = NoFile => ~UploadStarts]_vars

\* C11 witness: a selection was rejected after one was accepted; the accepted
\* file is still the selected one.
C11_RejectedAfterAccepted ==
    /\ file = NameMyApp
    /\ error = ErrSelectZip
    /\ run.pc = "idle"

\* the step in which the upload or the launch request is rejected: the run
\* ends and the launch endpoint has handed out no deployment id
RequestRejected == run.pc # "idle" /\ run'.pc = "idle" /\ nextId' = nextId

\* C12: the step in which the upload or the launch request is rejected sets
\* status 'failed', records the reason, appends one failure entry to the log,
\* stores no deployment id, starts no poller, issues no request and ends the
\* run with the busy flag cleared.
C12_RejectedRequestFails ==
    [][(mounted /\ RequestRejected) =>
          /\ status' = "failed"
          /\ \E e \in Errors :
                /\ error' = (IF e.detail # "" THEN e.detail ELSE e.message)
                /\ logs' = Append(logs, <<"failed", e.message>>)
          /\ deploymentId = NoId /\ deploymentId' = NoId
          /\ timers' = timers
          /\ polls' = polls
          /\ ~deploying']_vars

\* C12 witness: the launch request was rejected after an answered upload.
C12_LaunchRejected ==
    /\ mounted
    /\ status = "failed"
    /\ error = "bad archive"
    /\ logs = <<LogUploading, LogUploaded, LogBuilding,
                LogFailed("Request failed with status code 400")>>
    /\ deploymentId = NoId
    /\ run.pc = "idle"
    /\ timers = {}

\* C13 as claimed: whenever the status is 'building' the launch endpoint has
\* returned a deployment id.
C13_BuildingHasDeploymentId ==
    status = "building" => deploymentId # NoId

\* C13 as amended: whenever the status is 'building' the upload request was
\* answered: the launch request is in flight with its upload id, or the
\* launch endpoint has returned a deployment id.
C13_BuildingAfterUpload ==
    status = "building" =>
        \/ run.pc = "launch" /\ run.uploadId \in UploadIds
        \/ deploymentId # NoId

\* C13 witness: 'building' while the launch request is in flight.
C13_BuildingDuringLaunch ==
    /\ status = "building"
    /\ run.pc = "launch"
    /\ deploymentId = NoId

\* C14: the step that processes a 'succeeded' or 'failed' response clears the
\* interval of its deployment, and once the interval of a launched deployment
\* is cleared it is never set again and no status request is issued for it.
C14_NoPollAfterTerminal ==
    [][\A id \in DeployIds :
          /\ ((\E u \in Urls : StatusSucceeded(id, u)) \/ StatusFailed(id))
                => id \notin timers'
          /\ (id < nextId /\ id \notin timers)
                => (id \notin timers' /\ inflight'[id] <= inflight[id])]_vars

\* C14 witness: the terminal response was processed while further status
\* requests could still be issued.
C14_TerminalObserved ==
    /\ mounted
    /\ deploymentId = 1
    /\ status \in Terminal
    /\ logs[Len(logs)] \in {LogPollFailed} \cup {LogLive(u) : u \in Urls}
    /\ timers = {}
    /\ polls < MaxPolls

\* deployment id belongs to an earlier deployment than the one now submitted
Earlier(id) ==
    /\ id < nextId
    /\ \/ run.pc # "idle"
       \/ deploymentId # NoId /\ deploymentId # id

\* C15: the answer to a status request of an earlier deployment changes
\* neither the status nor the log of the deployment submitted after it.
C15_LateResponseIgnored ==
    [][\A id \in DeployIds :
          (mounted /\ Earlier(id) /\ inflight'[id] < inflight[id])
              => (status' = status /\ logs' = logs)]_vars

\* C16: the app_name of the launch request is derived from the file that was
\* handed to the upload request, whatever file is selected by then.
C16_AppNameOfUploadedFile ==
    run.pc = "launch" => run.appName = AppName(run.file)

\* C16 witness: another .zip file was selected while the upload request was
\* in flight, and the launch request has been issued.
C16_OtherFileSelected ==
    /\ run.pc = "launch"
    /\ file # NoFile
    /\ file # run.file
    /\ AppName(file) # AppName(run.file)

\* C17: at most one polling interval is active.
C17_OneTimer ==
    Cardinality(timers) <= 1

\* C18: once the component is unmounted no status request is issued and
\* neither the status nor the log changes.
C18_NoPollAfterUnmount ==
    [][~mounted => (polls' = polls /\ status' = status /\ logs' = logs)]_vars

\* C19: at most one request per agent is outstanding.
C19_OneCallPerAgent ==
    \A a \in Agents : agentCalls[a] <= 1

\* for the components rendered, the busy flag is set exactly while the
\* handler's request sequence is running
BusyWhileRunning ==
    /\ mounted => (deploying <=> run.pc # "idle")
    /\ queryMounted => (queryLoading <=> queryCalls > 0)
    /\ visionMounted => (visionLoading <=> visionCalls > 0)

\* a handler's request sequence starts
SubmitStarts == queryCalls' > queryCalls
GenerateStarts == visionCalls' > visionCalls

\* C20: 'deploying', and 'loading' of QueryTab and of VisionTab, are true
\* exactly while the handler's requests are running (so they are cleared when
\* the sequence ends, by an answer or a rejection), and no handler starts
\* while its flag is true.
C20_BusyFlag ==
    /\ []BusyWhileRunning
    /\ [][/\ deploying => ~UploadStarts
          /\ queryLoading => ~SubmitStarts
          /\ visionLoading => ~GenerateStarts]_vars

\* C20 witness: the launch request was rejected after the upload had been
\* answered, and 'deploying' is false again.
C20_ClearedAfterLaunchFailure ==
    /\ mounted
    /\ ~deploying
    /\ status = "failed"
    /\ run.pc = "idle"
    /\ logs = <<LogUploading, LogUploaded, LogBuilding, LogFailed("Network Error")>>

=============================================================================
